---- MODULE Spec2Model ----
(***************************************************************************)
(* Model of notebooks/market_research.ipynb: the notebook cell that builds *)
(* research_universe, flattens it into all_tickers and calls               *)
(* analyze_market_correlations on the first ten tickers.                   *)
(*                                                                         *)
(* Numbers.  Closing prices are positive integers.  A return and every     *)
(* intermediate of the correlation is an exact rational <<num, den>>, so   *)
(* the model computes the real-number value of what pandas computes in     *)
(* floating point.  A correlation coefficient r is kept as its sign and    *)
(* its square (r = sgn * sqrt(sq)), which is exact although r itself may   *)
(* be irrational.  A missing value (NaN) is the pair <<0, 0>>.  A name that *)
(* is not bound yet holds <<>>, and <<v>> once it is bound to v.           *)
(***************************************************************************)
EXTENDS Integers, Sequences, FiniteSets, TLC

VARIABLES
    cell_pc,            \* position of the notebook cell's top-level code
    bound,              \* names bound in the notebook's global namespace
    research_universe,  \* the dict of line 18, as a sequence of items in insertion order
    all_tickers,        \* the list of line 49
    category_i,         \* number of categories the loop of line 50 has consumed
    correlations,       \* the global of line 54
    pc,                 \* position inside analyze_market_correlations
    tickers,            \* its argument
    i,                  \* number of elements the loop of line 30 has consumed
    market,             \* which price histories the data provider may answer with
    fill_method,        \* the default fill that pct_change() of the installed pandas applied
    data,               \* the dict of line 29, as a sequence of items in insertion order
    df,                 \* line 37
    correlation_matrix, \* line 38
    attempts,           \* the fetches made so far, in order: [ticker, ok]
    stdout,             \* the lines printed so far
    figures,            \* number of figures plt.figure has opened
    heatmap,            \* the matrix drawn on the current figure
    shown,              \* the matrix on the figure plt.show displayed
    outcome,            \* of the call: "running", "returned" or "raised"
    exception,          \* the exception that left the call ("" when none)
    retval              \* the value the call returned

vars == <<cell_pc, bound, research_universe, all_tickers, category_i, correlations,
          pc, tickers, i, market, fill_method, data, df, correlation_matrix,
          attempts, stdout, figures, heatmap, shown, outcome, exception, retval>>

cellVars == <<cell_pc, bound, research_universe, all_tickers, category_i, correlations>>

(***************************************************************************)
(* Bounds of the model.                                                    *)
(***************************************************************************)
MaxTickers == 3
MaxDates == 4
MaxPrice == 3
MaxClose == 4
MaxHistory == 2

Tickers == {"T1", "T2", "T3"}
Dates == 1..MaxDates
Prices == 1..MaxPrice

NaN == <<0, 0>>

Unbound == <<>>
Some(v) == <<v>>
Get(o) == o[1]

(***************************************************************************)
(* Exact rational arithmetic.                                              *)
(***************************************************************************)
Abs(x) == IF x < 0 THEN -x ELSE x

Sign(x) == IF x < 0 THEN -1 ELSE IF x = 0 THEN 0 ELSE 1

RECURSIVE GCD(_, _)
GCD(a, b) == IF b = 0 THEN a ELSE GCD(b, a % b)

Rat(n, d) ==
    LET g == GCD(Abs(n), Abs(d))
        s == Sign(d)
    IN  <<(s * n) \div g, (s * d) \div g>>

RAdd(a, b) == Rat(a[1] * b[2] + b[1] * a[2], a[2] * b[2])

RSub(a, b) == Rat(a[1] * b[2] - b[1] * a[2], a[2] * b[2])

RMul(a, b) ==
    LET g1 == GCD(Abs(a[1]), b[2])
        g2 == GCD(Abs(b[1]), a[2])
    IN  <<(a[1] \div g1) * (b[1] \div g2), (a[2] \div g2) * (b[2] \div g1)>>

RDiv(a, b) == RMul(a, Rat(b[2], b[1]))

RECURSIVE RSum(_, _)
RSum(f, S) ==
    IF S = {} THEN <<0, 1>>
    ELSE LET k == CHOOSE x \in S : TRUE
         IN  RAdd(f[k], RSum(f, S \ {k}))

(***************************************************************************)
(* Lists and dicts.                                                        *)
(***************************************************************************)
Range(s) == {s[k] : k \in DOMAIN s}

RECURSIVE SortedSeq(_)
SortedSeq(S) ==
    IF S = {} THEN <<>>
    ELSE LET m == CHOOSE x \in S : \A y \in S : x <= y
         IN  <<m>> \o SortedSeq(S \ {m})

Keys(d) == [k \in DOMAIN d |-> d[k].key]

HasKey(d, key) == \E k \in DOMAIN d : d[k].key = key

Lookup(d, key) == d[CHOOSE k \in DOMAIN d : d[k].key = key].value

\* d[key] = value: an existing key keeps its place, a new key goes last.
DictSet(d, key, value) ==
    IF HasKey(d, key)
    THEN [k \in DOMAIN d |-> IF d[k].key = key THEN [key |-> key, value |-> value] ELSE d[k]]
    ELSE Append(d, [key |-> key, value |-> value])

\* list[:n]
Slice(s, n) == SubSeq(s, 1, IF n < Len(s) THEN n ELSE Len(s))

(***************************************************************************)
(* Price histories: a Series of closing prices indexed by date.            *)
(***************************************************************************)
\* Any series: on any set of dates, so that two series may miss each other's dates.
AllSeries == UNION {[S -> Prices] : S \in SUBSET Dates}

\* The series of one trading calendar: a close on every date.
FullSeries == [Dates -> 1..MaxClose]

\* The last n sessions' closes of one instrument.
HistoryOfLength(n) == [d \in 1..n |-> 1 + (d % MaxPrice)]

Histories == {HistoryOfLength(n) : n \in 0..MaxHistory}

\* The histories a fetch may answer with, by the kind of market the run is in.
Provider(kind) ==
    CASE kind = "series" -> AllSeries
      [] kind = "closes" -> FullSeries
      [] kind = "histories" -> Histories
      [] kind = "history" -> {HistoryOfLength(MaxHistory)}

(***************************************************************************)
(* pandas: DataFrame(data), DataFrame.pct_change(), DataFrame.corr().      *)
(* A frame is [index, columns, val]: val[c][r] is the cell of column c at  *)
(* row r, a rational or NaN.                                               *)
(***************************************************************************)
\* pd.DataFrame(dict of Series): the columns are the keys in insertion order, the
\* index is the sorted union of the Series' dates, a date a Series lacks is NaN.
DataFrame(d) ==
    LET idx == SortedSeq(UNION {DOMAIN d[k].value : k \in DOMAIN d})
        cols == Keys(d)
    IN  [index |-> idx,
         columns |-> cols,
         val |-> [c \in Range(cols) |->
                    [r \in 1..Len(idx) |->
                        IF idx[r] \in DOMAIN Lookup(d, c)
                        THEN <<Lookup(d, c)[idx[r]], 1>>
                        ELSE NaN]]]

\* fillna(method="pad"): a NaN takes the last value before it, a leading NaN stays.
FFill(col) ==
    [r \in DOMAIN col |->
        LET seen == {j \in 1..r : col[j] # NaN}
        IN  IF seen = {} THEN NaN
            ELSE col[CHOOSE j \in seen : \A j2 \in seen : j2 <= j]]

\* The variant data - data.shift(1): the change, not the percentage change.
PctOfDifference(cur, prev) ==
    IF cur = NaN \/ prev = NaN THEN NaN ELSE RSub(cur, prev)

\* One cell of data / data.shift(1) - 1.
PctOf(cur, prev) ==
    IF cur = NaN \/ prev = NaN THEN NaN ELSE RSub(RDiv(cur, prev), <<1, 1>>)

PctChangeColumn(col, fill) ==
    LET filled == IF fill = "pad" THEN FFill(col) ELSE col
    IN  [r \in DOMAIN col |-> IF r = 1 THEN NaN ELSE PctOf(filled[r], filled[r - 1])]

PctChange(frame, fill) ==
    [frame EXCEPT !.val = [c \in DOMAIN frame.val |-> PctChangeColumn(frame.val[c], fill)]]

\* corr(method="pearson", min_periods=1)
MinPeriods == 1

NaNCorr == [sgn |-> 0, sq |-> NaN]

\* The variant covxy / ssqdx: the slope of y on x.
CoefficientOverVarianceOfX(covxy, ssqdx, ssqdy) ==
    IF ssqdx[1] = 0 \/ ssqdy[1] = 0 THEN NaNCorr
    ELSE [sgn |-> Sign(covxy[1]),
          sq |-> RMul(RDiv(covxy, ssqdx), RDiv(covxy, ssqdx))]

\* The variant sqrt(covxy^2 / (ssqdx * ssqdy)): the size of the coefficient.
CoefficientUnsigned(covxy, ssqdx, ssqdy) ==
    IF ssqdx[1] = 0 \/ ssqdy[1] = 0 THEN NaNCorr
    ELSE [sgn |-> Abs(Sign(covxy[1])),
          sq |-> RMul(RDiv(covxy, ssqdx), RDiv(covxy, ssqdy))]

\* The coefficient covxy / sqrt(ssqdx * ssqdy), as its sign and its square.
Coefficient(covxy, ssqdx, ssqdy) ==
    IF ssqdx[1] = 0 \/ ssqdy[1] = 0 THEN NaNCorr
    ELSE [sgn |-> Sign(covxy[1]),
          sq |-> RMul(RDiv(covxy, ssqdx), RDiv(covxy, ssqdy))]

\* Pearson's r of two columns over the rows where both are present.
CorrEntry(x, y) ==
    LET rows == {r \in DOMAIN x : x[r] # NaN /\ y[r] # NaN}
        nobs == Cardinality(rows)
        meanx == RDiv(RSum(x, rows), <<nobs, 1>>)
        meany == RDiv(RSum(y, rows), <<nobs, 1>>)
        dx == [r \in rows |-> RSub(x[r], meanx)]
        dy == [r \in rows |-> RSub(y[r], meany)]
        ssqdx == RSum([r \in rows |-> RMul(dx[r], dx[r])], rows)
        ssqdy == RSum([r \in rows |-> RMul(dy[r], dy[r])], rows)
        covxy == RSum([r \in rows |-> RMul(dx[r], dy[r])], rows)
    IN  IF nobs < MinPeriods THEN NaNCorr ELSE Coefficient(covxy, ssqdx, ssqdy)

\* The variant that computes every cell on its own, over the rows where its row
\* label is present.
CorrCellByCell(frame) ==
    [index |-> frame.columns,
     columns |-> frame.columns,
     val |-> [p \in Range(frame.columns) \X Range(frame.columns) |->
                LET x == frame.val[p[1]]
                    y == frame.val[p[2]]
                IN  CorrEntry(x, [r \in DOMAIN y |-> IF y[r] = NaN THEN x[r] ELSE y[r]])]]

Corr(frame) ==
    LET K == Len(frame.columns)
        \* nancorr fills result[xi, yi] and result[yi, xi] from one computation, yi <= xi
        upper == [xi \in 1..K |-> [yi \in 1..xi |->
                    CorrEntry(frame.val[frame.columns[xi]], frame.val[frame.columns[yi]])]]
        Pos(c) == CHOOSE k \in 1..K : frame.columns[k] = c
    IN  [index |-> frame.columns,
         columns |-> frame.columns,
         val |-> [p \in Range(frame.columns) \X Range(frame.columns) |->
                    IF Pos(p[1]) >= Pos(p[2])
                    THEN upper[Pos(p[1])][Pos(p[2])]
                    ELSE upper[Pos(p[2])][Pos(p[1])]]]

One == [sgn |-> 1, sq |-> <<1, 1>>]
MinusOne == [sgn |-> -1, sq |-> <<1, 1>>]

(***************************************************************************)
(* The notebook's globals.                                                 *)
(***************************************************************************)
\* The names the import statements bind.
ImportedNames == {"yf", "pd", "np", "plt", "datetime", "timedelta"}

ResearchUniverse ==
    << [key |-> "indices",     value |-> <<"SPY", "QQQ", "IWM", "DIA">>],
       [key |-> "sectors",     value |-> <<"XLF", "XLK", "XLE", "XLV", "XLI">>],
       [key |-> "commodities", value |-> <<"GLD", "SLV", "USO", "UNG">>],
       [key |-> "bonds",       value |-> <<"TLT", "IEF", "SHY", "HYG">>],
       [key |-> "volatility",  value |-> <<"VIX", "UVXY", "SVXY">>] >>

\* all_tickers[:10]
SliceLimit == 10

FailureMessage(ticker) == <<"Failed to get data for", ticker>>

Banner == <<"Analyzing market correlations...">>

(***************************************************************************)
(* analyze_market_correlations(tickers, period='3mo')                      *)
(***************************************************************************)
\* The state of a call that has just been entered with argument t.
Enter(t) ==
    /\ pc' = "fetch"
    /\ tickers' = t
    /\ i' = 0
    /\ data' = <<>>
    /\ df' = Unbound
    /\ correlation_matrix' = Unbound
    /\ outcome' = "running"
    /\ exception' = ""
    /\ retval' = Unbound

\* An exception leaves the call.
Raise(name) ==
    /\ pc' = "done"
    /\ outcome' = "raised"
    /\ exception' = name
    /\ retval' = Unbound

\* One pass of the loop whose fetch answers with the history s.
FetchOk(s) ==
    /\ pc = "fetch"
    /\ i < Len(tickers)
    /\ "yf" \in bound
    /\ attempts' = Append(attempts, [ticker |-> tickers[i + 1], ok |-> TRUE])
    /\ data' = DictSet(data, tickers[i + 1], s)
    /\ i' = i + 1
    /\ UNCHANGED <<cellVars, pc, tickers, market, fill_method, df, correlation_matrix,
                   stdout, figures, heatmap, shown, outcome, exception, retval>>

\* The variant whose except clause stores an empty series for the ticker.
FetchFailKeepsColumn ==
    /\ pc = "fetch"
    /\ i < Len(tickers)
    /\ attempts' = Append(attempts, [ticker |-> tickers[i + 1], ok |-> FALSE])
    /\ stdout' = Append(stdout, FailureMessage(tickers[i + 1]))
    /\ data' = DictSet(data, tickers[i + 1], <<>>)
    /\ i' = i + 1
    /\ UNCHANGED <<cellVars, pc, tickers, market, fill_method, df, correlation_matrix,
                   figures, heatmap, shown, outcome, exception, retval>>

\* The variant whose except clause fetches the same ticker again.
FetchFailRetries ==
    /\ pc = "fetch"
    /\ i < Len(tickers)
    /\ attempts' = Append(attempts, [ticker |-> tickers[i + 1], ok |-> FALSE])
    /\ stdout' = Append(stdout, FailureMessage(tickers[i + 1]))
    /\ UNCHANGED <<cellVars, pc, tickers, i, market, fill_method, data, df,
                   correlation_matrix, figures, heatmap, shown, outcome, exception, retval>>

\* One pass of the loop whose fetch raises: the except clause prints.
FetchFail ==
    /\ pc = "fetch"
    /\ i < Len(tickers)
    /\ attempts' = Append(attempts, [ticker |-> tickers[i + 1], ok |-> FALSE])
    /\ stdout' = Append(stdout, FailureMessage(tickers[i + 1]))
    /\ i' = i + 1
    /\ UNCHANGED <<cellVars, pc, tickers, market, fill_method, data, df, correlation_matrix,
                   figures, heatmap, shown, outcome, exception, retval>>

\* The loop is over: df = pd.DataFrame(data)
BuildTable ==
    /\ pc = "fetch"
    /\ i = Len(tickers)
    /\ IF "pd" \in bound
       THEN /\ df' = Some(DataFrame(data))
            /\ pc' = "corr"
            /\ UNCHANGED <<outcome, exception, retval>>
       ELSE /\ Raise("NameError")
            /\ UNCHANGED df
    /\ UNCHANGED <<cellVars, tickers, i, market, fill_method, data, correlation_matrix,
                   attempts, stdout, figures, heatmap, shown>>

\* pct_change() pads missing prices before dividing in pandas 1.x and 2.x, and
\* does not in pandas 3: the notebook pins no version.
FillMethods == {"pad", "none"}

\* correlation_matrix = df.pct_change().corr(), under the pandas default fill f
Correlate(f) ==
    /\ pc = "corr"
    /\ fill_method' = f
    /\ correlation_matrix' = Some(Corr(PctChange(Get(df), f)))
    /\ pc' = "plot"
    /\ UNCHANGED <<cellVars, tickers, i, market, data, df,
                   attempts, stdout, figures, heatmap, shown, outcome, exception, retval>>

\* plt.figure; sns.heatmap; plt.title; plt.show; return correlation_matrix
Plot ==
    /\ pc = "plot"
    /\ IF "plt" \notin bound
       THEN /\ Raise("NameError")
            /\ UNCHANGED <<figures, heatmap, shown>>
       ELSE /\ figures' = figures + 1
            /\ IF "sns" \notin bound
               THEN /\ Raise("NameError")
                    /\ heatmap' = Unbound
                    /\ UNCHANGED shown
               ELSE /\ heatmap' = correlation_matrix
                    /\ shown' = correlation_matrix
                    /\ pc' = "done"
                    /\ outcome' = "returned"
                    /\ retval' = correlation_matrix
                    /\ UNCHANGED exception
    /\ UNCHANGED <<cellVars, tickers, i, market, fill_method, data, df, correlation_matrix,
                   attempts, stdout>>

(***************************************************************************)
(* The cell's top-level code.                                              *)
(***************************************************************************)
funVars == <<pc, tickers, i, market, fill_method, data, df, correlation_matrix,
             attempts, stdout, figures, heatmap, shown, outcome, exception, retval>>

\* import ... (five statements)
Import ==
    /\ cell_pc = "import"
    /\ bound' = bound \cup ImportedNames
    /\ cell_pc' = "universe"
    /\ UNCHANGED <<research_universe, all_tickers, category_i, correlations, funVars>>

\* research_universe = {...}
DefineUniverse ==
    /\ cell_pc = "universe"
    /\ research_universe' = ResearchUniverse
    /\ bound' = bound \cup {"research_universe"}
    /\ cell_pc' = "def"
    /\ UNCHANGED <<all_tickers, category_i, correlations, funVars>>

\* def analyze_market_correlations(...)
DefineFunction ==
    /\ cell_pc = "def"
    /\ bound' = bound \cup {"analyze_market_correlations"}
    /\ cell_pc' = "list"
    /\ UNCHANGED <<research_universe, all_tickers, category_i, correlations, funVars>>

\* all_tickers = []
InitList ==
    /\ cell_pc = "list"
    /\ all_tickers' = <<>>
    /\ category_i' = 0
    /\ bound' = bound \cup {"all_tickers"}
    /\ cell_pc' = "extend"
    /\ UNCHANGED <<research_universe, correlations, funVars>>

\* list.extend: the elements of the argument are appended, the argument is not touched.
ExtendList(list, more) == list \o more

\* One pass of: for category in research_universe.values(): all_tickers.extend(category)
Extend ==
    /\ cell_pc = "extend"
    /\ category_i < Len(research_universe)
    /\ all_tickers' = ExtendList(all_tickers, research_universe[category_i + 1].value)
    /\ category_i' = category_i + 1
    /\ bound' = bound \cup {"category"}
    /\ UNCHANGED <<cell_pc, research_universe, correlations, funVars>>

\* The loop is over: print(...)
PrintBanner ==
    /\ cell_pc = "extend"
    /\ category_i = Len(research_universe)
    /\ stdout' = Append(stdout, Banner)
    /\ cell_pc' = "call"
    /\ UNCHANGED <<bound, research_universe, all_tickers, category_i, correlations,
                   tickers, i, pc, market, fill_method, data, df, correlation_matrix,
                   attempts, figures, heatmap, shown, outcome, exception, retval>>

\* The variant that passes the whole list.
CallArgumentUnsliced == all_tickers

\* The argument of the call of line 54.
CallArgument == Slice(all_tickers, SliceLimit)

\* analyze_market_correlations(all_tickers[:10]) is entered
Call ==
    /\ cell_pc = "call"
    /\ Enter(CallArgument)
    /\ cell_pc' = "in_call"
    /\ UNCHANGED <<bound, research_universe, all_tickers, category_i, correlations,
                   market, fill_method, attempts, stdout, figures, heatmap, shown>>

\* The call is over: correlations = <its value>, or its exception ends the cell.
CallEnds ==
    /\ cell_pc = "in_call"
    /\ pc = "done"
    /\ IF outcome = "returned"
       THEN /\ correlations' = retval
            /\ bound' = bound \cup {"correlations"}
            /\ cell_pc' = "finished"
       ELSE /\ cell_pc' = "error"
            /\ UNCHANGED <<correlations, bound>>
    /\ UNCHANGED <<research_universe, all_tickers, category_i, funVars>>

(***************************************************************************)
(* Specifications.                                                         *)
(***************************************************************************)
\* The lists over S of length at most n.
ListsUpTo(S, n) == UNION {[1..k -> S] : k \in 0..n}

\* The names the cell has bound when it reaches the call of line 54.
NamesAtCall ==
    ImportedNames \cup {"research_universe", "analyze_market_correlations",
                        "all_tickers", "category"}

\* The globals as the cell leaves them, seen by a call made from outside it.
LoadedCell ==
    /\ cell_pc = "idle"
    /\ bound = NamesAtCall
    /\ research_universe = ResearchUniverse
    /\ all_tickers = <<>>
    /\ category_i = 0
    /\ correlations = Unbound

NothingDoneYet ==
    /\ attempts = <<>>
    /\ stdout = <<>>
    /\ figures = 0
    /\ heatmap = Unbound
    /\ shown = Unbound

EnteredWith(t) ==
    /\ pc = "fetch"
    /\ tickers = t
    /\ i = 0
    /\ data = <<>>
    /\ df = Unbound
    /\ correlation_matrix = Unbound
    /\ outcome = "running"
    /\ exception = ""
    /\ retval = Unbound

\* A call of analyze_market_correlations on any list of tickers.
Init ==
    /\ LoadedCell
    /\ NothingDoneYet
    /\ \E t \in ListsUpTo(Tickers, MaxTickers) : EnteredWith(t)
    /\ market = "histories"
    /\ fill_method = ""

Next ==
    \/ \E s \in Provider(market) : FetchOk(s)
    \/ FetchFail
    \/ BuildTable
    \/ \E f \in FillMethods : Correlate(f)
    \/ Plot

Spec == Init /\ [][Next]_vars

\* A call on two tickers whose histories are any price series.
InitCorr ==
    /\ LoadedCell
    /\ NothingDoneYet
    /\ EnteredWith(<<"T1", "T2">>)
    /\ market = "series"
    /\ fill_method = ""

SpecCorr == InitCorr /\ [][Next]_vars

\* A call on two tickers of one trading calendar.
InitPair ==
    /\ LoadedCell
    /\ NothingDoneYet
    /\ EnteredWith(<<"T1", "T2">>)
    /\ market = "closes"
    /\ fill_method = ""

SpecPair == InitPair /\ [][Next]_vars

\* A run of the cell in a fresh kernel.
InitCell ==
    /\ cell_pc = "import"
    /\ bound = {}
    /\ research_universe = <<>>
    /\ all_tickers = <<>>
    /\ category_i = 0
    /\ correlations = Unbound
    /\ NothingDoneYet
    /\ pc = "idle"
    /\ tickers = <<>>
    /\ i = 0
    /\ data = <<>>
    /\ df = Unbound
    /\ correlation_matrix = Unbound
    /\ outcome = "running"
    /\ exception = ""
    /\ retval = Unbound
    /\ market = "history"
    /\ fill_method = ""

NextCell ==
    \/ Import
    \/ DefineUniverse
    \/ DefineFunction
    \/ InitList
    \/ Extend
    \/ PrintBanner
    \/ Call
    \/ CallEnds
    \/ Next

SpecCell == InitCell /\ [][NextCell]_vars

(***************************************************************************)
(* Properties of the routine: the terms they are stated in.                *)
(***************************************************************************)
\* correlation_matrix has been computed (line 38); line 46 returns this value.
MatrixBound == correlation_matrix # Unbound

Matrix == Get(correlation_matrix)

Labels == Range(Matrix.columns)

\* The tickers with a fetch that succeeded, and those with a fetch that raised.
Succeeded == {attempts[k].ticker : k \in {j \in DOMAIN attempts : attempts[j].ok}}

Failed == {attempts[k].ticker : k \in {j \in DOMAIN attempts : ~attempts[j].ok}}

IsFailure(a) == ~a.ok

EmptyMatrix == [index |-> <<>>, columns |-> <<>>, val |-> <<>>]

\* e is a number of the interval [-1, 1]
InRange(e) == e.sq # NaN /\ e.sq[1] <= e.sq[2]

(***************************************************************************)
(* C1: no exception propagates out of analyze_market_correlations,        *)
(* whatever the ticker list and the fetch outcomes: every call ends by     *)
(* returning a correlation matrix.                                         *)
(***************************************************************************)
C1_NoExceptionEscapes == pc = "done" => outcome = "returned"

(***************************************************************************)
(* C2, as stated: the row labels and the column labels of the matrix are   *)
(* exactly the tickers whose fetch succeeded, and no ticker whose fetch    *)
(* raised is among them.                                                   *)
(***************************************************************************)
C2_LabelsSucceededAndNeverFailed ==
    MatrixBound =>
        /\ Range(Matrix.index) = Succeeded
        /\ Range(Matrix.columns) = Succeeded
        /\ Labels \cap Failed = {}

(***************************************************************************)
(* C2, amended: the row labels and the column labels of the matrix are     *)
(* exactly the tickers with at least one successful fetch, each once; a    *)
(* ticker all of whose fetches raised is in neither.                       *)
(***************************************************************************)
C2_LabelsAreTickersWithASuccess ==
    MatrixBound =>
        /\ Range(Matrix.index) = Succeeded
        /\ Range(Matrix.columns) = Succeeded
        /\ Len(Matrix.index) = Cardinality(Succeeded)
        /\ Len(Matrix.columns) = Cardinality(Succeeded)
        /\ Labels \cap (Failed \ Succeeded) = {}

\* A matrix computed after a failure that came before a success, with a ticker
\* that only failed and a ticker that both failed and succeeded.
C2_Witness ==
    /\ MatrixBound
    /\ \E k, l \in DOMAIN attempts : k < l /\ ~attempts[k].ok /\ attempts[l].ok
    /\ Failed \ Succeeded # {}
    /\ Failed \cap Succeeded # {}

(***************************************************************************)
(* C3: called with an empty ticker list, the routine performs no fetch and *)
(* returns an empty matrix without raising.                                *)
(***************************************************************************)
C3_EmptyListReturnsEmptyMatrix ==
    (tickers = <<>> /\ pc = "done") =>
        /\ attempts = <<>>
        /\ outcome = "returned"
        /\ retval = Some(EmptyMatrix)

(***************************************************************************)
(* C4: the correlation matrix is square (its row labels are its column     *)
(* labels) and symmetric (entry (a, b) equals entry (b, a), undefined      *)
(* entries included), for any subset of tickers fetched successfully.      *)
(***************************************************************************)
C4_SquareAndSymmetric ==
    MatrixBound =>
        /\ Matrix.index = Matrix.columns
        /\ DOMAIN Matrix.val = Labels \X Labels
        /\ \A a, b \in Labels : Matrix.val[<<a, b>>] = Matrix.val[<<b, a>>]

\* A two-ticker matrix whose off-diagonal entry is a number other than 0, 1 and -1.
C4_Witness ==
    /\ MatrixBound
    /\ Len(Matrix.columns) = 2
    /\ LET e == Matrix.val[<<"T1", "T2">>]
       IN  e # NaNCorr /\ e.sgn # 0 /\ e.sq # <<1, 1>>

(***************************************************************************)
(* The day-over-day returns of a column of the table, stated from the      *)
(* prices: the return at row r compares the price at r with the price at   *)
(* r - 1, each replaced by the last price before it when the fill pads.    *)
(***************************************************************************)
PriceAt(col, r, fill) ==
    IF fill = "none" \/ col[r] # NaN THEN col[r]
    ELSE LET before == {j \in 1..r : col[j] # NaN}
         IN  IF before = {} THEN NaN
             ELSE col[CHOOSE j \in before : \A j2 \in before : j2 <= j]

ReturnRows(col, fill) ==
    {r \in 2..Len(col) : PriceAt(col, r, fill) # NaN /\ PriceAt(col, r - 1, fill) # NaN}

\* The returns at rows r1 and r2 differ: p(r1) / p(r1 - 1) # p(r2) / p(r2 - 1)
ReturnsDiffer(col, r1, r2, fill) ==
    PriceAt(col, r1, fill)[1] * PriceAt(col, r2 - 1, fill)[1]
        # PriceAt(col, r2, fill)[1] * PriceAt(col, r1 - 1, fill)[1]

ReturnsVary(col, fill) ==
    \E r1, r2 \in ReturnRows(col, fill) : ReturnsDiffer(col, r1, r2, fill)

PricesVary(col) ==
    \E r1, r2 \in DOMAIN col : col[r1] # NaN /\ col[r2] # NaN /\ col[r1] # col[r2]

(***************************************************************************)
(* C5, as stated: for every successfully fetched ticker whose closing      *)
(* prices have nonzero variance, the diagonal entry (t, t) is 1.0.         *)
(***************************************************************************)
C5_DiagonalOneWhenPricesVary ==
    MatrixBound =>
        \A t \in Labels : PricesVary(Get(df).val[t]) => Matrix.val[<<t, t>>] = One

(***************************************************************************)
(* C5, amended: for every successfully fetched ticker, the diagonal entry  *)
(* (t, t) is 1.0 when the ticker's day-over-day returns take at least two  *)
(* different values, and undefined otherwise; the matrix is computed over  *)
(* the returns, not over the prices.                                       *)
(***************************************************************************)
C5_DiagonalOneIffReturnsVary ==
    MatrixBound =>
        \A t \in Labels :
            Matrix.val[<<t, t>>] =
                IF ReturnsVary(Get(df).val[t], fill_method) THEN One ELSE NaNCorr

\* A matrix with a ticker of three varying prices whose returns do not vary, beside
\* a ticker whose returns vary.
C5_Witness ==
    /\ MatrixBound
    /\ Labels = {"T1", "T2"}
    /\ PricesVary(Get(df).val["T1"])
    /\ Cardinality(DOMAIN Lookup(data, "T1")) = 3
    /\ ~ReturnsVary(Get(df).val["T1"], fill_method)
    /\ Matrix.val[<<"T1", "T1">>] = NaNCorr
    /\ Matrix.val[<<"T2", "T2">>] = One

(***************************************************************************)
(* C6, as stated: every entry of the matrix lies within [-1.0, 1.0], for   *)
(* every set of fetched series, constant, empty, one-point and disjoint    *)
(* series included.                                                        *)
(***************************************************************************)
C6_EveryEntryInRange ==
    MatrixBound => \A p \in DOMAIN Matrix.val : InRange(Matrix.val[p])

(***************************************************************************)
(* C6, amended: every entry of the matrix is either undefined (NaN) or     *)
(* within [-1.0, 1.0]; the entries of a constant, an empty or a one-point  *)
(* series are undefined.                                                   *)
(***************************************************************************)
C6_EveryEntryUndefinedOrInRange ==
    MatrixBound =>
        /\ \A p \in DOMAIN Matrix.val : Matrix.val[p] = NaNCorr \/ InRange(Matrix.val[p])
        /\ \A t \in Labels :
              (~PricesVary(Get(df).val[t]) \/ Cardinality(DOMAIN Lookup(data, t)) <= 1) =>
                  \A u \in Labels : Matrix.val[<<t, u>>] = NaNCorr

\* A matrix with the undefined entries of a constant series of three prices, beside
\* the entry 1.0 of a series on four dates.
C6_Witness ==
    /\ MatrixBound
    /\ Labels = {"T1", "T2"}
    /\ Cardinality(DOMAIN Lookup(data, "T1")) = 3
    /\ ~PricesVary(Get(df).val["T1"])
    /\ Matrix.val[<<"T1", "T1">>] = NaNCorr
    /\ Matrix.val[<<"T1", "T2">>] = NaNCorr
    /\ Cardinality(DOMAIN Lookup(data, "T2")) = 4
    /\ Matrix.val[<<"T2", "T2">>] = One

(***************************************************************************)
(* Two tickers fetched on the same dates, and their returns stated from    *)
(* the prices x and y of the two columns.                                  *)
(***************************************************************************)
TwoOnSameDates ==
    /\ MatrixBound
    /\ Keys(data) = <<"T1", "T2">>
    /\ DOMAIN Lookup(data, "T1") = DOMAIN Lookup(data, "T2")

\* x[r] / x[r - 1] - 1 = y[r] / y[r - 1] - 1 at every row
IdenticalReturns(x, y) ==
    \A r \in 2..Len(x) : x[r][1] * y[r - 1][1] = y[r][1] * x[r - 1][1]

\* x[r] / x[r - 1] - 1 = -(y[r] / y[r - 1] - 1) at every row
InverseReturns(x, y) ==
    \A r \in 2..Len(x) :
        (x[r][1] - x[r - 1][1]) * y[r - 1][1] = -((y[r][1] - y[r - 1][1]) * x[r - 1][1])

(***************************************************************************)
(* C7, as stated: for two tickers with fixed price histories on the same   *)
(* dates, identical returns give the off-diagonal entry 1.0 and perfectly  *)
(* inverse returns give -1.0.                                              *)
(***************************************************************************)
C7_IdenticalOneInverseMinusOne ==
    TwoOnSameDates =>
        LET x == Get(df).val["T1"]
            y == Get(df).val["T2"]
        IN  /\ IdenticalReturns(x, y) => Matrix.val[<<"T1", "T2">>] = One
            /\ InverseReturns(x, y) => Matrix.val[<<"T1", "T2">>] = MinusOne

(***************************************************************************)
(* C7, amended: for two tickers with fixed price histories on the same     *)
(* dates whose returns take at least two different values, identical       *)
(* returns give the off-diagonal entry 1.0 and perfectly inverse returns   *)
(* give -1.0.                                                              *)
(***************************************************************************)
C7_VaryingIdenticalOneInverseMinusOne ==
    TwoOnSameDates =>
        LET x == Get(df).val["T1"]
            y == Get(df).val["T2"]
        IN  ReturnsVary(x, "none") =>
                /\ IdenticalReturns(x, y) => Matrix.val[<<"T1", "T2">>] = One
                /\ InverseReturns(x, y) => Matrix.val[<<"T1", "T2">>] = MinusOne

\* Two histories with perfectly inverse returns that take three different values.
C7_Witness ==
    /\ TwoOnSameDates
    /\ LET x == Get(df).val["T1"]
       IN  /\ ReturnsDiffer(x, 2, 3, "none")
           /\ ReturnsDiffer(x, 3, 4, "none")
           /\ ReturnsDiffer(x, 2, 4, "none")
    /\ InverseReturns(Get(df).val["T1"], Get(df).val["T2"])
    /\ Matrix.val[<<"T1", "T2">>] = MinusOne

\* Two different histories with identical, varying returns.
C7_IdenticalCase ==
    /\ TwoOnSameDates
    /\ Get(df).val["T1"] # Get(df).val["T2"]
    /\ ReturnsVary(Get(df).val["T1"], "none")
    /\ IdenticalReturns(Get(df).val["T1"], Get(df).val["T2"])
    /\ Matrix.val[<<"T1", "T2">>] = One

C9_EachTickerFetchedOnceInOrder ==
    /\ i <= Len(tickers)
    /\ [k \in DOMAIN attempts |-> attempts[k].ticker] = SubSeq(tickers, 1, i)
    /\ LET failures == SelectSeq(attempts, IsFailure)
       IN  stdout = [k \in DOMAIN failures |-> FailureMessage(failures[k].ticker)]
    /\ df # Unbound => i = Len(tickers)
    /\ pc # "fetch" => i = Len(tickers)

\* The table of a three-ticker list whose first fetch failed and whose last succeeded.
C9_Witness ==
    /\ df # Unbound
    /\ Len(tickers) = 3
    /\ ~attempts[1].ok
    /\ attempts[3].ok
    /\ Len(stdout) >= 1

(***************************************************************************)
(* C10: the cell passes to analyze_market_correlations exactly the first   *)
(* ten tickers of research_universe flattened in category order (the four  *)
(* indices, the five sectors, GLD); at most ten fetches are made and no    *)
(* bond or volatility ticker is fetched; research_universe is unchanged.   *)
(***************************************************************************)
C10_FirstTenTickersOnly ==
    /\ cell_pc \in {"in_call", "error", "finished"} =>
          tickers = <<"SPY", "QQQ", "IWM", "DIA", "XLF", "XLK", "XLE", "XLV", "XLI", "GLD">>
    /\ Len(attempts) <= 10
    /\ \A k \in DOMAIN attempts :
          attempts[k].ticker \notin {"TLT", "IEF", "SHY", "HYG", "VIX", "UVXY", "SVXY"}
    /\ "research_universe" \in bound =>
          /\ Len(research_universe) = 5
          /\ research_universe[1] = [key |-> "indices", value |-> <<"SPY", "QQQ", "IWM", "DIA">>]
          /\ research_universe[2] =
                [key |-> "sectors", value |-> <<"XLF", "XLK", "XLE", "XLV", "XLI">>]
          /\ research_universe[3] =
                [key |-> "commodities", value |-> <<"GLD", "SLV", "USO", "UNG">>]
          /\ research_universe[4] = [key |-> "bonds", value |-> <<"TLT", "IEF", "SHY", "HYG">>]
          /\ research_universe[5] = [key |-> "volatility", value |-> <<"VIX", "UVXY", "SVXY">>]

\* The cell's call is over after ten fetches.
C10_Witness ==
    /\ cell_pc = "error"
    /\ Len(attempts) = 10
    /\ Len(all_tickers) = 20

====
